---- MODULE Spec2Model ----
(***************************************************************************)
(* Model of the client-side data-grid engine: the DataTable component      *)
(* (persisted view state, debounced save and search, clear-all, global     *)
(* search) and the list components that fetch the rows it shows.           *)
(*                                                                         *)
(* Strings are sequences of one-character strings.  Time is counted in     *)
(* ticks of 100 ms; a pending timeout carries the ticks left until it is   *)
(* due.  One render pass of React (a handler, the batched state update,    *)
(* the effects whose dependencies changed, in declaration order) is one    *)
(* action.                                                                 *)
(***************************************************************************)
EXTENDS Integers, Sequences, FiniteSets, TLC

VARIABLES
  \* ---- DataTable props (fixed for the lifetime of the page)
  tableId,                  \* <<>> models a missing tableId (falsy)
  enablePersistentFilters,
  \* ---- DataTable instance
  mounted,
  columnFilters,            \* useState([])  src/DataTable.jsx:77
  globalFilter,             \* useState("")  src/DataTable.jsx:75
  sorting,                  \* useState([])  src/DataTable.jsx:76
  mountError,               \* an exception left the load-on-mount effect
  \* ---- browser
  store,                    \* localStorage: key -> text, NoItem when absent
  timers,                   \* pending setTimeout callbacks, oldest first
  \* ---- history (observation only)
  mounts,                   \* number of mounts so far
  clearRun,                 \* successive clearAllFilters invocations
  sinceClear,               \* no user action since the last clear-all
  written,                  \* aspect -> in-memory value last written by a save
  lastCall,                 \* owner -> arguments of the last call of the burst
  cancelled,                \* a pending save timeout was cleared by a later call
  sinceCall,                \* owner -> ticks since the last call (capped)
  loads,                    \* runs of the load effect that read the storage
  \* ---- a list component (OptimizedCompanyList, UploadedDataList,
  \*      UploadedFileList) and the request it has in flight
  component,                \* which list component the page shows
  hasToken,                 \* localStorage holds "token"
  hasProjectId,             \* localStorage holds "project_id"
  listMounted,
  rows,                     \* allCompanyDetails / dataUploaded / allUploadDetails
  isLoading,
  error,                    \* "" is null: no error state
  initialLoadComplete,
  inFlight,                 \* the network request has not settled yet
  everSucceeded,            \* history: some fetch completed successfully
  lastFailure,              \* history: how the last settled fetch failed, if it did
  fetchCalls,               \* history: calls of the fetch function since mount
  \* ---- one evaluation of the global search
  searchableTextKey,        \* "" is null
  tableData,
  searchTerm,
  filteredData,             \* performGlobalSearch(globalFilter, tableData)
  shownRows,                \* the rows globalFilterFn lets through
  searched,
  \* ---- one run of a row transformer
  transformer,              \* which of the three
  rawRecords,               \* result.result of the response
  transformed,              \* what the transformer returned, or that it threw
  transformDone,
  userDetails,              \* the userList of processCompanyData, as set
  \* ---- virtualization settings of a rendered table
  host,                     \* the component that renders the table
  columnCount,              \* columns.length
  props,                    \* the virtualization and pagination props DataTable is given
  dataSize,                 \* tableData.length
  filteredCount,            \* filteredData.length
  tableOptions,              \* the virtualization options handed to the table
  \* ---- sorting the upload logs by a count column
  sortRaw,                  \* the upload logs the rows are made of
  sortColumn,               \* the count column that is sorted by
  sortedRows,               \* the rows in the order the table shows
  sortDone,
  \* ---- the collateral upload dialog
  selectedFile,             \* a file is chosen in the dialog
  uploadDialogOpen,
  uploading,
  uploadProgress,
  liveIntervals,            \* the progress intervals that were not cleared
  apiLeft,                  \* periods until the simulated API call resolves, -1 when none
  uploadsStarted

tableVars == <<tableId, enablePersistentFilters, mounted, columnFilters,
               globalFilter, sorting, mountError, store, timers>>
histVars  == <<mounts, clearRun, sinceClear, written, lastCall, cancelled,
               sinceCall, loads>>
fetchVars == <<component, hasToken, hasProjectId, listMounted, rows, isLoading,
               error, initialLoadComplete, inFlight, everSucceeded, lastFailure,
               fetchCalls>>
searchVars == <<searchableTextKey, tableData, searchTerm, filteredData,
                shownRows, searched>>
transformVars == <<transformer, rawRecords, transformed, transformDone,
                   userDetails>>
virtualVars == <<host, columnCount, props, dataSize, filteredCount, tableOptions>>
sortVars == <<sortRaw, sortColumn, sortedRows, sortDone>>
uploadVars == <<selectedFile, uploadDialogOpen, uploading, uploadProgress, liveIntervals, apiLeft, uploadsStarted>>
vars == <<tableVars, histVars, fetchVars, searchVars, transformVars, virtualVars, sortVars, uploadVars>>

----------------------------------------------------------------------------
(* Bounds *)
MaxMounts == 2

(* Program constants, in ticks of 100 ms *)
SaveDelay   == 5
SearchDelay == 3

----------------------------------------------------------------------------
(* Values *)
NoItem == <<"null">>          \* getItem of an absent key; no text equals it
Q  == "\""
BS == "\\"

Aspects == <<"columnFilters", "globalFilter", "sorting">>
AspectSet == {Aspects[i] : i \in 1..3}
Owners == {"save", "search"}

\* a tableId is a text; "_" and the aspect names are spelled as single
\* characters of it
TableIds == {<<"t1">>}
\* the tableIds of other tables that keep their view in the same localStorage
OtherIds == {<<"t2">>, <<"t1", "_", "sorting">>}
NoTableId == <<>>
ColumnFilterVals == {<<>>, <<"f", "g">>}
SortingVals      == {<<>>, <<"s">>}
TypedTerms       == {<<>>, <<"a">>}
ItemTokens       == {"f", "g", "s"}

Min(a, b) == IF a < b THEN a ELSE b

----------------------------------------------------------------------------
(* JSON.stringify / JSON.parse on the values the table persists *)

RECURSIVE Escape(_)
Escape(s) ==
  IF s = <<>> THEN <<>>
  ELSE (IF Head(s) \in {Q, BS} THEN <<BS, Head(s)>> ELSE <<Head(s)>>)
       \o Escape(Tail(s))

JSONStringifyString(s) == <<Q>> \o Escape(s) \o <<Q>>

RECURSIVE JoinComma(_)
JoinComma(a) ==
  IF a = <<>> THEN <<>>
  ELSE IF Len(a) = 1 THEN <<a[1]>>
  ELSE <<a[1], ",">> \o JoinComma(Tail(a))

JSONStringifyArray(a) == <<"[">> \o JoinComma(a) \o <<"]">>

\* JSON.parse of an array text: ok = FALSE stands for the SyntaxError thrown
JSONParse(text) ==
  LET n     == Len(text)
      inner == IF n >= 2 THEN SubSeq(text, 2, n - 1) ELSE <<>>
      m     == Len(inner)
      wellFormed ==
        /\ n >= 2
        /\ text[1] = "[" /\ text[n] = "]"
        /\ \/ m = 0
           \/ /\ m % 2 = 1
              /\ \A i \in 1..m : IF i % 2 = 1 THEN inner[i] \in ItemTokens
                                             ELSE inner[i] = ","
  IN IF wellFormed
     THEN [ok |-> TRUE,  val |-> [i \in 1..((m + 1) \div 2) |-> inner[2 * i - 1]]]
     ELSE [ok |-> FALSE, val |-> <<>>]

Truthy(text) == text # NoItem /\ text # <<>>

----------------------------------------------------------------------------
(* storageKeys, src/DataTable.jsx:84-91 *)
\* a key that leaves the tableId out
StorageKeyNoId(tid, aspect) == <<"datatable", "_", aspect>>

\* `datatable_${tableId}_<aspect>`
StorageKey(tid, aspect) == <<"datatable", "_">> \o tid \o <<"_", aspect>>
KeysOf(tid) == {StorageKey(tid, a) : a \in AspectSet}
AllKeys == UNION {KeysOf(tid) : tid \in TableIds \cup OtherIds}
\* the aspect a key ends with
AspectOf(key) == key[Len(key)]

\* keys that are built for every table with a tableId
storageKeysWithoutSwitch == tableId # NoTableId

\* storageKeys is not null
storageKeysDefined == enablePersistentFilters /\ tableId # NoTableId
storageKeys == [a \in AspectSet |-> StorageKey(tableId, a)]

\* the value debouncedSave writes: JSON.stringify dispatches on the value's type
JSONStringify(key, value) ==
  IF AspectOf(key) = "globalFilter" THEN JSONStringifyString(value)
                             ELSE JSONStringifyArray(value)

----------------------------------------------------------------------------
(* createDebounce, src/DataTable.jsx:10-16.  A pending timeout is a record; *)
(* cur marks the timeout whose id the closure variable `timer` holds.       *)
Timer(owner, delay, key, value) ==
  [owner |-> owner, left |-> delay, key |-> key, value |-> value, cur |-> TRUE]

ClearTimeout(tq, owner) ==
  SelectSeq(tq, LAMBDA t : ~(t.owner = owner /\ t.cur))

Delay(owner) == IF owner = "save" THEN SaveDelay ELSE SearchDelay

\* the debounced function without its clearTimeout: the earlier timeout stays
createDebounceNoClear(tq, owner, key, value) ==
  Append([i \in 1..Len(tq) |->
            IF tq[i].owner = owner THEN [tq[i] EXCEPT !.cur = FALSE] ELSE tq[i]],
         Timer(owner, Delay(owner), key, value))

\* one call of the function createDebounce returns
createDebounce(tq, owner, key, value) ==
  Append(ClearTimeout(tq, owner), Timer(owner, Delay(owner), key, value))

\* a call: [owner, key, value]
Call(owner, key, value) == [owner |-> owner, key |-> key, value |-> value]

RECURSIVE ApplyCalls(_, _)
ApplyCalls(tq, calls) ==
  IF calls = <<>> THEN tq
  ELSE ApplyCalls(createDebounce(tq, calls[1].owner, calls[1].key, calls[1].value),
                  Tail(calls))

\* debouncedSave(storageKeys.<aspect>, value) inside a save effect,
\* src/DataTable.jsx:127-143
SaveEffect(aspect, value) ==
  IF storageKeysDefined
  THEN <<Call("save", storageKeys[aspect], value)>>
  ELSE <<>>

----------------------------------------------------------------------------
(* History bookkeeping for the debounced calls made by one pass.  A burst   *)
(* is the run of calls of one debounced function since its last invocation. *)
HistCap == 2

CallsOf(calls, o) == SelectSeq(calls, LAMBDA c : c.owner = o)

NoCall == Call("none", NoItem, NoItem)
EmptyBy(x) == [o \in Owners |-> x]

NoteCalls(calls, lc) ==
  /\ lastCall' = [o \in Owners |->
        IF CallsOf(calls, o) = <<>> THEN lc[o]
        ELSE CallsOf(calls, o)[Len(CallsOf(calls, o))]]
  /\ cancelled' = (\/ cancelled
                   \/ /\ CallsOf(calls, "save") # <<>>
                      /\ lc["save"] # NoCall \/ Len(CallsOf(calls, "save")) > 1)
  /\ sinceCall' = [o \in Owners |->
        IF CallsOf(calls, o) = <<>> THEN sinceCall[o] ELSE 0]

----------------------------------------------------------------------------
\* an effect without a dependency array runs after every render
LoadEffectEveryRender(firstRender) == TRUE

\* useEffect(..., [storageKeys]), src/DataTable.jsx:94, 114: storageKeys is
\* memoized on the props, so the effect runs after the first render only
LoadEffectRuns(firstRender) == firstRender

\* the storage reads of the load effect after a render
ReadsAfterRender(firstRender) ==
  IF storageKeysDefined /\ LoadEffectRuns(firstRender) THEN 1 ELSE 0

\* a load effect without try/catch: the SyntaxError leaves the effect
RethrowParseError(threw) == threw

\* catch (e) { console.warn(...) }, src/DataTable.jsx:111-113: whether the
\* exception still leaves the effect
CatchParseError(threw) == FALSE

(* Load persistent filters on mount, src/DataTable.jsx:94-114.  The three   *)
(* getItem calls come first; the first JSON.parse that throws ends the try  *)
(* block, and the catch only logs.  set: the aspects whose setter ran.      *)
LoadOnMount(st) ==
  LET savedFilters      == st[storageKeys["columnFilters"]]
      savedGlobalFilter == st[storageKeys["globalFilter"]]
      savedSorting      == st[storageKeys["sorting"]]
      pf == JSONParse(savedFilters)
      ps == JSONParse(savedSorting)
      filtersThrow == Truthy(savedFilters) /\ ~pf.ok
      sortingThrow == ~filtersThrow /\ Truthy(savedSorting) /\ ~ps.ok
      setF == Truthy(savedFilters) /\ pf.ok
      setG == ~filtersThrow /\ Truthy(savedGlobalFilter)
      setS == ~filtersThrow /\ Truthy(savedSorting) /\ ps.ok
  IN [columnFilters |-> IF setF THEN pf.val ELSE <<>>,
      globalFilter  |-> IF setG THEN savedGlobalFilter ELSE <<>>,
      sorting       |-> IF setS THEN ps.val ELSE <<>>,
      set    |-> (IF setF THEN {"columnFilters"} ELSE {})
                 \cup (IF setG THEN {"globalFilter"} ELSE {})
                 \cup (IF setS THEN {"sorting"} ELSE {}),
      thrown |-> CatchParseError(filtersThrow \/ sortingThrow)]

NothingLoaded ==
  [columnFilters |-> <<>>, globalFilter |-> <<>>, sorting |-> <<>>,
   set |-> {}, thrown |-> FALSE]

(* First render of a DataTable: state is empty, then the effects run in     *)
(* declaration order (load, save columnFilters, save globalFilter, save     *)
(* sorting), then the loaded state is rendered and the save effects whose   *)
(* state changed run again.  src/DataTable.jsx:75-143                       *)
Mount ==
  /\ ~mounted
  /\ mounts < MaxMounts
  /\ LET ld == IF storageKeysDefined THEN LoadOnMount(store) ELSE NothingLoaded
         firstPass == SaveEffect("columnFilters", <<>>)
                      \o SaveEffect("globalFilter", <<>>)
                      \o SaveEffect("sorting", <<>>)
         secondPass ==
              (IF "columnFilters" \in ld.set
               THEN SaveEffect("columnFilters", ld.columnFilters) ELSE <<>>)
           \o (IF "globalFilter" \in ld.set
               THEN SaveEffect("globalFilter", ld.globalFilter) ELSE <<>>)
           \o (IF "sorting" \in ld.set
               THEN SaveEffect("sorting", ld.sorting) ELSE <<>>)
         calls == firstPass \o secondPass
     IN /\ mounted' = TRUE
        /\ columnFilters' = ld.columnFilters
        /\ globalFilter' = ld.globalFilter
        /\ sorting' = ld.sorting
        /\ mountError' = ld.thrown
        /\ timers' = ApplyCalls(timers, calls)
        /\ NoteCalls(calls, lastCall)
  /\ mounts' = mounts + 1
  /\ loads' = ReadsAfterRender(TRUE)
  /\ clearRun' = 0
  /\ sinceClear' = FALSE
  /\ UNCHANGED <<tableId, enablePersistentFilters, store, written>>
  /\ UNCHANGED <<fetchVars, searchVars, transformVars, virtualVars, sortVars, uploadVars>>

(* The component is removed and its state is dropped.  The page is left     *)
(* once the pending timeouts have run.                                      *)
Unmount ==
  /\ mounted
  /\ timers = <<>>
  /\ mounted' = FALSE
  /\ columnFilters' = <<>>
  /\ globalFilter' = <<>>
  /\ sorting' = <<>>
  /\ clearRun' = 0
  /\ sinceClear' = FALSE
  /\ loads' = 0
  /\ UNCHANGED <<tableId, enablePersistentFilters, mountError, store, timers,
                 mounts, written, lastCall, cancelled, sinceCall>>
  /\ UNCHANGED <<fetchVars, searchVars, transformVars, virtualVars, sortVars, uploadVars>>

----------------------------------------------------------------------------
(* User operations on a mounted table *)

UserStep ==
  /\ clearRun' = 0
  /\ sinceClear' = FALSE
  /\ loads' = loads + ReadsAfterRender(FALSE)
  /\ UNCHANGED <<tableId, enablePersistentFilters, mounted, mountError, store,
                 mounts, written>>
  /\ UNCHANGED <<fetchVars, searchVars, transformVars, virtualVars, sortVars, uploadVars>>

\* onColumnFiltersChange: setColumnFilters, then the save effect of
\* src/DataTable.jsx:127-131 (the new array is a new dependency value)
SetColumnFilters(v) ==
  /\ mounted
  /\ columnFilters' = v
  /\ timers' = ApplyCalls(timers, SaveEffect("columnFilters", v))
  /\ NoteCalls(SaveEffect("columnFilters", v), lastCall)
  /\ UserStep
  /\ UNCHANGED <<globalFilter, sorting>>

\* onSortingChange: setSorting, then the save effect of src/DataTable.jsx:139-143
SetSorting(v) ==
  /\ mounted
  /\ sorting' = v
  /\ timers' = ApplyCalls(timers, SaveEffect("sorting", v))
  /\ NoteCalls(SaveEffect("sorting", v), lastCall)
  /\ UserStep
  /\ UNCHANGED <<columnFilters, globalFilter>>

\* onGlobalFilterChange: debouncedSearch(value), src/DataTable.jsx:168-173, 539
TypeSearch(term) ==
  /\ mounted
  /\ timers' = ApplyCalls(timers, <<Call("search", NoItem, term)>>)
  /\ NoteCalls(<<Call("search", NoItem, term)>>, lastCall)
  /\ UserStep
  /\ UNCHANGED <<columnFilters, globalFilter, sorting>>

\* a reset that forgets the sorting
ResetViewKeepSorting(cf, gf, so) ==
  [columnFilters |-> <<>>, globalFilter |-> <<>>, sorting |-> so]

\* setColumnFilters([]); setGlobalFilter(""); setSorting([]),
\* src/DataTable.jsx:184-186
ResetView(cf, gf, so) ==
  [columnFilters |-> <<>>, globalFilter |-> <<>>, sorting |-> <<>>]

\* clearAllFilters, src/DataTable.jsx:183-193, and the render that follows:
\* the two fresh arrays always re-run their save effects, the search string
\* re-runs its effect only when it was not already empty
clearAllFilters ==
  /\ mounted
  /\ columnFilters' = ResetView(columnFilters, globalFilter, sorting).columnFilters
  /\ globalFilter' = ResetView(columnFilters, globalFilter, sorting).globalFilter
  /\ sorting' = ResetView(columnFilters, globalFilter, sorting).sorting
  /\ store' = IF storageKeysDefined
              THEN [k \in DOMAIN store |->
                      IF k \in {storageKeys[a] : a \in AspectSet}
                      THEN NoItem ELSE store[k]]
              ELSE store
  /\ written' = IF storageKeysDefined THEN [a \in AspectSet |-> NoItem]
                                      ELSE written
  /\ LET calls == SaveEffect("columnFilters", <<>>)
                  \o (IF globalFilter # <<>>
                      THEN SaveEffect("globalFilter", <<>>) ELSE <<>>)
                  \o SaveEffect("sorting", <<>>)
     IN /\ timers' = ApplyCalls(timers, calls)
        /\ NoteCalls(calls, lastCall)
  /\ clearRun' = Min(HistCap, clearRun + 1)
  /\ sinceClear' = TRUE
  /\ loads' = loads + ReadsAfterRender(FALSE)
  /\ UNCHANGED <<tableId, enablePersistentFilters, mounted, mountError, mounts>>
  /\ UNCHANGED <<fetchVars, searchVars, transformVars, virtualVars, sortVars, uploadVars>>

----------------------------------------------------------------------------
(* Timers *)

RemoveAt(tq, i) == [j \in 1..(Len(tq) - 1) |-> IF j < i THEN tq[j] ELSE tq[j + 1]]

\* the timeout that runs next: the oldest one that is due
Due(i) ==
  /\ i \in 1..Len(timers)
  /\ timers[i].left = 0
  /\ \A j \in 1..(i - 1) : timers[j].left > 0

\* an invocation of the debounced function ends its burst
EndBurst(t) == [lastCall EXCEPT ![t.owner] = NoCall]

\* the callback given to createDebounce at src/DataTable.jsx:118-122
FireSave ==
  \E i \in 1..Len(timers) :
    /\ Due(i)
    /\ timers[i].owner = "save"
    /\ LET t == timers[i]
       IN /\ store' = [store EXCEPT ![t.key] = JSONStringify(t.key, t.value)]
          /\ written' = [written EXCEPT ![AspectOf(t.key)] = t.value]
          /\ lastCall' = EndBurst(t)
    /\ timers' = RemoveAt(timers, i)
    /\ clearRun' = 0
    /\ UNCHANGED <<tableId, enablePersistentFilters, mounted, columnFilters,
                   globalFilter, sorting, mountError, mounts, sinceClear,
                   cancelled, sinceCall, loads>>
    /\ UNCHANGED <<fetchVars, searchVars, transformVars, virtualVars, sortVars, uploadVars>>

\* the callback given to createDebounce at src/DataTable.jsx:169-171:
\* setGlobalFilter(value); a changed string re-runs the save effect of
\* src/DataTable.jsx:133-137.
FireSearch ==
  \E i \in 1..Len(timers) :
    /\ Due(i)
    /\ timers[i].owner = "search"
    /\ LET t == timers[i]
           changed == t.value # globalFilter
           calls == IF changed THEN SaveEffect("globalFilter", t.value) ELSE <<>>
       IN /\ globalFilter' = IF changed THEN t.value ELSE globalFilter
          /\ timers' = ApplyCalls(RemoveAt(timers, i), calls)
          /\ NoteCalls(calls, EndBurst(t))
          /\ loads' = loads + (IF changed THEN ReadsAfterRender(FALSE) ELSE 0)
    /\ clearRun' = 0
    /\ UNCHANGED <<tableId, enablePersistentFilters, mounted, columnFilters,
                   sorting, mountError, store, mounts, sinceClear, written>>
    /\ UNCHANGED <<fetchVars, searchVars, transformVars, virtualVars, sortVars, uploadVars>>

\* 100 ms pass; a timeout that is due runs before the clock moves on
Tick ==
  /\ timers # <<>>
  /\ \A i \in 1..Len(timers) : timers[i].left > 0
  /\ timers' = [i \in 1..Len(timers) |-> [timers[i] EXCEPT !.left = @ - 1]]
  /\ sinceCall' = [o \in Owners |-> Min(Delay(o), sinceCall[o] + 1)]
  /\ clearRun' = 0
  /\ UNCHANGED <<tableId, enablePersistentFilters, mounted, columnFilters,
                 globalFilter, sorting, mountError, store, mounts, sinceClear,
                 written, lastCall, cancelled, loads>>
  /\ UNCHANGED <<fetchVars, searchVars, transformVars, virtualVars, sortVars, uploadVars>>

----------------------------------------------------------------------------
(* What localStorage may hold when the page opens: nothing, or the texts an *)
(* earlier session wrote with one of them damaged.                          *)
\* the entry another table saved under its own key
OtherEntry(k) ==
  JSONStringify(k, IF AspectOf(k) = "globalFilter" THEN <<"a">> ELSE <<"g">>)

SeedStore(cf, gf, so) ==
  [k \in AllKeys |->
     IF k \notin UNION {KeysOf(tid) : tid \in TableIds} THEN OtherEntry(k)
     ELSE IF AspectOf(k) = "columnFilters" THEN cf
     ELSE IF AspectOf(k) = "globalFilter" THEN gf ELSE so]

SeedStores ==
  { SeedStore(NoItem, NoItem, NoItem),
    SeedStore(<<"[", "f">>, JSONStringifyString(<<"a">>),
              JSONStringifyArray(<<"s">>)),
    SeedStore(JSONStringifyArray(<<"f">>), NoItem, <<"s", "]">>) }

\* no DataTable on the page
TableUnset ==
  /\ mounted = FALSE
  /\ columnFilters = <<>>
  /\ globalFilter = <<>>
  /\ sorting = <<>>
  /\ mountError = FALSE
  /\ timers = <<>>
  /\ mounts = 0
  /\ clearRun = 0
  /\ sinceClear = FALSE
  /\ written = [a \in AspectSet |-> NoItem]
  /\ lastCall = EmptyBy(NoCall)
  /\ cancelled = FALSE
  /\ sinceCall = [o \in Owners |-> Delay(o)]
  /\ loads = 0

TableInit ==
  /\ tableId \in TableIds \cup {NoTableId}
  /\ enablePersistentFilters \in BOOLEAN
  /\ store \in SeedStores
  /\ TableUnset

TableIdle ==
  /\ tableId = NoTableId
  /\ enablePersistentFilters = FALSE
  /\ store = SeedStore(NoItem, NoItem, NoItem)
  /\ TableUnset

----------------------------------------------------------------------------
(* JavaScript strings and values *)

\* the sequences over S of length n at most
RECURSIVE SeqsUpTo(_, _)
SeqsUpTo(S, n) ==
  IF n = 0 THEN {<<>>}
  ELSE LET shorter == SeqsUpTo(S, n - 1)
       IN  shorter \cup {Append(q, x) : q \in shorter, x \in S}

UpperCase == <<"A", "B", "C", "D", "E", "F", "G", "H", "I", "J", "K", "L", "M",
               "N", "O", "P", "Q", "R", "S", "T", "U", "V", "W", "X", "Y", "Z">>
LowerCase == <<"a", "b", "c", "d", "e", "f", "g", "h", "i", "j", "k", "l", "m",
               "n", "o", "p", "q", "r", "s", "t", "u", "v", "w", "x", "y", "z">>
ToLowerChar(c) ==
  IF \E i \in 1..26 : UpperCase[i] = c
    THEN LowerCase[CHOOSE i \in 1..26 : UpperCase[i] = c]
    ELSE c
ToUpperChar(c) ==
  IF \E i \in 1..26 : LowerCase[i] = c
    THEN UpperCase[CHOOSE i \in 1..26 : LowerCase[i] = c]
    ELSE c
\* String.prototype.toLowerCase
ToLowerCase(s) == [i \in 1..Len(s) |-> ToLowerChar(s[i])]

RECURSIVE TrimStart(_)
TrimStart(s) ==
  IF s # <<>> /\ Head(s) = " " THEN TrimStart(Tail(s)) ELSE s
RECURSIVE TrimEnd(_)
TrimEnd(s) ==
  IF s # <<>> /\ s[Len(s)] = " " THEN TrimEnd(SubSeq(s, 1, Len(s) - 1)) ELSE s
\* String.prototype.trim
Trim(s) == TrimEnd(TrimStart(s))

\* String.prototype.includes
Includes(text, sub) ==
  \E i \in 0..(Len(text) - Len(sub)) : SubSeq(text, i + 1, i + Len(sub)) = sub

\* field values: undefined (a missing field), null, a string, a number
Undefined == [t |-> "undefined"]
Null == [t |-> "null"]
\* value == null
Nullish(v) == v.t \in {"undefined", "null"}
Str(s) == [t |-> "string", s |-> s]
Num(n) == [t |-> "number", n |-> n]

Digits == <<"0", "1", "2", "3", "4", "5", "6", "7", "8", "9">>
\* String(value) of a non-null value; the numbers are below 100
String(v) ==
  IF v.t = "string" THEN v.s
  ELSE IF v.n < 10 THEN <<Digits[v.n + 1]>>
  ELSE <<Digits[(v.n \div 10) + 1], Digits[(v.n % 10) + 1]>>
\* the value in a condition: undefined, null, "" and 0 are falsy
TruthyValue(v) ==
  IF Nullish(v) THEN FALSE
  ELSE IF v.t = "string" THEN v.s # <<>>
  ELSE IF v.t = "number" THEN v.n # 0
  ELSE TRUE

\* Object.values(row)
ObjectValues(row) == {row[f] : f \in DOMAIN row}

----------------------------------------------------------------------------
(* The row transformers: transformUploadedData (UploadedDataList),         *)
(* processUploadData (UploadedFileList), processCompanyData                 *)
(* (OptimizedCompanyList).  A transformer returns [threw, rows]: threw      *)
(* stands for the exception that leaves the map callback.                   *)

MaxRaw == 2

\* a || b
OrValue(a, b) == IF TruthyValue(a) THEN a ELSE b

\* [...].filter(Boolean)
FilterBoolean(values) == SelectSeq(values, TruthyValue)

\* Array.prototype.join(sep), each element through String
RECURSIVE Join(_, _)
Join(values, sep) ==
  IF values = <<>> THEN <<>>
  ELSE IF Len(values) = 1 THEN String(values[1])
  ELSE String(values[1]) \o sep \o Join(Tail(values), sep)

\* value?.toLowerCase() of a string or a missing value
OptionalToLowerCase(v) == IF Nullish(v) THEN Undefined ELSE Str(ToLowerCase(v.s))

\* value.toString(): a TypeError when the value is undefined or null
ToStringOf(v) ==
  IF Nullish(v) THEN [threw |-> TRUE, value |-> Undefined]
  ELSE [threw |-> FALSE, value |-> Str(String(v))]

ValidDate == <<"2", "0", "2", "4", "-", "0", "3", "-", "0", "5">>
InvalidDate == <<"x">>
\* format(new Date(value), "dd MMMM yyyy"): new Date(null) is the epoch,
\* new Date(undefined) and new Date of an arbitrary text are Invalid Dates,
\* on which format throws a RangeError
FormatDate(v) ==
  IF v = Null THEN [threw |-> FALSE, value |-> Str(<<"0", "1", " ", "J", "a", "n", "u", "a", "r", "y", " ", "1", "9", "7", "0">>)]
  ELSE IF v = Str(ValidDate) THEN [threw |-> FALSE, value |-> Str(<<"0", "5", " ", "M", "a", "r", "c", "h", " ", "2", "0", "2", "4">>)]
  ELSE [threw |-> TRUE, value |-> Undefined]

UnknownFile == <<"U", "n", "k", "n", "o", "w", "n", " ", "F", "i", "l", "e">>
UnknownDate == <<"U", "n", "k", "n", "o", "w", "n", " ", "D", "a", "t", "e">>
Unknown == <<"U", "n", "k", "n", "o", "w", "n">>

\* the callback of data.map in transformUploadedData
TransformUploadedItem(item) ==
  LET fileName == OrValue(item.file_name, Str(UnknownFile))
      date == IF TruthyValue(item.created_at) THEN FormatDate(item.created_at)
              ELSE [threw |-> FALSE, value |-> Str(UnknownDate)]
      uploadedDate == date.value
      status == OrValue(item.over_all_status, Str(Unknown))
      totalRows == OrValue(item.total_rows, Num(0))
      companiesImported == Str(String(OrValue(item.total_new_companies, Num(0))))
      contactsImported == Str(String(OrValue(item.total_new_contacts, Num(0))))
      companiesResearched ==
        Str(String(OrValue(item.total_companies_market_researched, Num(0))))
      contactsResearched ==
        Str(String(OrValue(item.total_contacts_market_researched, Num(0))))
      totalSkipped == Str(String(OrValue(item.total_skipped, Num(0))))
      parts == <<fileName, uploadedDate, status, Str(String(totalRows)),
                 companiesImported, contactsImported, companiesResearched,
                 contactsResearched, totalSkipped,
                 OptionalToLowerCase(item.file_name),
                 OptionalToLowerCase(item.over_all_status),
                 Str(<<"u", "p", "l", "o", "a", "d", "e", "d">>), Str(<<"i", "m", "p", "o", "r", "t">>), Str(<<"d", "a", "t", "a">>), Str(<<"f", "i", "l", "e">>)>>
  IN  [threw |-> date.threw,
       row |-> [fileName |-> fileName,
                uploadedDate |-> uploadedDate,
                total_rowes |-> totalRows,
                companies_imported |-> companiesImported,
                contacts_imported |-> contactsImported,
                companies_researched |-> companiesResearched,
                contacts_researched |-> contactsResearched,
                total_rows_skipped |-> totalSkipped,
                status |-> status,
                searchableText |->
                  Str(ToLowerCase(Join(FilterBoolean(parts), <<" ">>)))]]

\* the callback of uploadData.map in processUploadData
ProcessUploadItem(item) ==
  LET date == FormatDate(item.created_at)
      companies == ToStringOf(item.total_new_companies)
      contacts == ToStringOf(item.total_new_contacts)
      companiesResearched == ToStringOf(item.total_companies_market_researched)
      contactsResearched == ToStringOf(item.total_contacts_market_researched)
      skipped == ToStringOf(item.total_skipped)
      parts == <<item.file_name, item.over_all_status, date.value>>
  IN  [threw |-> \/ date.threw \/ companies.threw \/ contacts.threw
                 \/ companiesResearched.threw \/ contactsResearched.threw
                 \/ skipped.threw,
       row |-> [id |-> OrValue(item._id, item.id),
                fileName |-> item.file_name,
                uploadedDate |-> date.value,
                total_rowes |-> item.total_rows,
                companies_imported |-> companies.value,
                contacts_imported |-> contacts.value,
                companies_researched |-> companiesResearched.value,
                contacts_researched |-> contactsResearched.value,
                total_rows_skipped |-> skipped.value,
                status |-> item.over_all_status,
                total_rows_raw |-> OrValue(item.total_rows, Num(0)),
                companies_imported_raw |-> OrValue(item.total_new_companies, Num(0)),
                contacts_imported_raw |-> OrValue(item.total_new_contacts, Num(0)),
                companies_researched_raw |->
                  OrValue(item.total_companies_market_researched, Num(0)),
                contacts_researched_raw |->
                  OrValue(item.total_contacts_market_researched, Num(0)),
                total_rows_skipped_raw |-> OrValue(item.total_skipped, Num(0)),
                created_at |-> item.created_at,
                searchableText |->
                  Str(ToLowerCase(Join(FilterBoolean(parts), <<" ">>)))]]

\* the raw records of the import logs, by what they lack
RawUpload(ids, created_at, shape) ==
  LET named == shape \in {"complete", "noCounts"}
      counted == shape \in {"complete", "noName"}
      count == IF counted THEN Num(3) ELSE Null
  IN  [_id |-> ids[1], id |-> ids[2],
       file_name |-> IF named THEN Str(<<"a", ".", "c", "s", "v">>) ELSE Undefined,
       created_at |-> created_at,
       over_all_status |-> IF shape = "bare" THEN Undefined ELSE Str(<<"D", "o", "n", "e">>),
       total_rows |-> IF counted THEN Num(3) ELSE Undefined,
       total_new_companies |-> count,
       total_new_contacts |-> count,
       total_companies_market_researched |-> count,
       total_contacts_market_researched |-> count,
       total_skipped |-> IF counted THEN Num(0) ELSE Undefined]

RawIds == {<<Num(1), Undefined>>, <<Num(2), Undefined>>, <<Undefined, Num(1)>>}
RawDates == {Undefined, Null, Str(ValidDate), Str(InvalidDate)}
RawShapes == {"complete", "noName", "noCounts", "bare"}
RawUploads ==
  {RawUpload(ids, d, sh) : ids \in RawIds, d \in RawDates, sh \in RawShapes}

\* String.prototype.toUpperCase
ToUpperCase(s) == [i \in 1..Len(s) |-> ToUpperChar(s[i])]

\* s.charAt(0).toUpperCase() + s.slice(1)
CapitalizeFirst(s) == IF s = <<>> THEN <<>> ELSE <<ToUpperChar(Head(s))>> \o Tail(s)

\* arrays and objects among the field values
Array(a) == [t |-> "array", a |-> a]
Geography(country, region, state) ==
  [t |-> "object", country |-> country, region |-> region, state |-> state]
SdrDetails(first_name, last_name, id) ==
  [t |-> "object", first_name |-> first_name, last_name |-> last_name, _id |-> id]
\* {}
EmptyObject == SdrDetails(Undefined, Undefined, Undefined)

Dashes == <<"-", "-", "-">>

\* capitalizeText, capitalizeIndustry and formatRevenue are imported from
\* Constants/Funtions/commonFunctions
capitalizeText(v) ==
  IF TruthyValue(v) THEN Str(CapitalizeFirst(v.s)) ELSE Str(<<>>)
capitalizeIndustry(industries) ==
  Str(Join([i \in 1..Len(industries.a) |-> capitalizeText(industries.a[i])],
           <<",", " ">>))
formatRevenue(v) == Str(String(v))

\* value?.toString()
OptionalToString(v) == IF Nullish(v) THEN Undefined ELSE Str(String(v))

\* the callback of item.geographies.map
GeographyText(geo) ==
  LET country == OrValue(IF Nullish(geo.country) THEN Undefined
                         ELSE Str(ToUpperCase(geo.country.s)), Str(Dashes))
      region == IF TruthyValue(geo.region)
                  THEN Str(CapitalizeFirst(geo.region.s)) ELSE Str(Dashes)
      state == IF TruthyValue(geo.state)
                 THEN Str(CapitalizeFirst(geo.state.s)) ELSE Str(Dashes)
  IN  [country |-> country, region |-> region, state |-> state,
       text |-> Str(country.s \o <<",">> \o region.s \o <<",">> \o state.s)]

\* the callback of companyData.map in processCompanyData
ProcessCompanyItem(item) ==
  LET sdrDetails == OrValue(item.sdr_details, EmptyObject)
      sdrName == OrValue(Str(Join(FilterBoolean(<<sdrDetails.first_name,
                                                  sdrDetails.last_name>>),
                                  <<" ">>)),
                         Str(Dashes))
      sdr_user_id == OrValue(sdrDetails._id, Null)
      hasGeo == ~Nullish(item.geographies) /\ Len(item.geographies.a) > 0
      geos == IF hasGeo
                THEN [i \in 1..Len(item.geographies.a) |->
                        GeographyText(item.geographies.a[i])]
                ELSE <<>>
      last == IF hasGeo THEN geos[Len(geos)]
              ELSE [country |-> Str(Dashes), region |-> Str(Dashes),
                    state |-> Str(Dashes), text |-> Str(Dashes)]
      geography == IF hasGeo
                     THEN Str(Join([i \in 1..Len(geos) |-> geos[i].text],
                                   <<";", " ">>))
                     ELSE Str(Dashes)
      hasIndustries == ~Nullish(item.industries) /\ Len(item.industries.a) > 0
      industries == IF hasIndustries THEN capitalizeIndustry(item.industries)
                    ELSE Str(Dashes)
      companyName == capitalizeText(OrValue(item.company_name, Str(Dashes)))
      dataSource == OrValue(capitalizeText(item.data_source), Str(Dashes))
      revenue == IF TruthyValue(item.revenue)
                   THEN Str(<<"$", " ">> \o formatRevenue(item.revenue).s)
                   ELSE Str(Dashes)
      contactCount == OrValue(OptionalToString(item.prospect_contact_count),
                              Str(<<"0">>))
      buyerIntentScore == OrValue(item.buyer_intent_score, Num(0))
      parts == <<companyName, OptionalToLowerCase(item.company_name), industries>>
               \o (IF Nullish(item.industries) THEN <<>> ELSE item.industries.a)
               \o <<last.country, last.region, last.state, geography,
                    sdrName, sdrDetails.first_name, sdrDetails.last_name,
                    revenue, OptionalToString(item.revenue),
                    Str(String(buyerIntentScore)), contactCount,
                    dataSource, OptionalToLowerCase(item.data_source),
                    Str(<<"c", "o", "m", "p", "a", "n", "y">>), Str(<<"p", "r", "o", "s", "p", "e", "c", "t">>), Str(<<"l", "e", "a", "d">>), Str(<<"b", "u", "s", "i", "n", "e", "s", "s">>),
                    item.created_date, item.updated_date,
                    item.reviewed_by_sdr_date>>
  IN  [threw |-> FALSE,
       user |-> [userName |-> sdrName, sdr_user_id |-> sdr_user_id],
       row |-> [id |-> item._id,
                company_name |-> companyName,
                industries |-> industries,
                buyer_intent_score |-> buyerIntentScore,
                revenue |-> revenue,
                revenue_raw |-> OrValue(item.revenue, Num(0)),
                geography |-> geography,
                country |-> last.country,
                state |-> last.state,
                region |-> last.region,
                sdr |-> sdrName,
                reviewed_by_sdr_date |->
                  OrValue(item.reviewed_by_sdr_date, Str(Dashes)),
                prospect_contact_count |-> contactCount,
                prospect_contact_count_raw |->
                  OrValue(item.prospect_contact_count, Num(0)),
                data_source |-> dataSource,
                user_id |-> sdr_user_id,
                created_date |-> OrValue(item.created_date, item.createdAt),
                updated_date |-> OrValue(item.updated_date, item.updatedAt),
                searchableText |->
                  Str(ToLowerCase(Join(FilterBoolean(parts), <<" ">>)))]]

\* a collection that takes every row's SDR
CollectUsersAll(users) ==
  LET hasId(u) == TruthyValue(u.sdr_user_id)
  IN  SelectSeq(users, hasId)

\* the users collected for the filter dropdown: the first row of each SDR
RECURSIVE CollectUsers(_)
CollectUsers(users) ==
  IF users = <<>> THEN <<>>
  ELSE LET before == CollectUsers(SubSeq(users, 1, Len(users) - 1))
           u == users[Len(users)]
       IN  IF /\ TruthyValue(u.sdr_user_id)
              /\ ~\E i \in 1..Len(before) : before[i].sdr_user_id = u.sdr_user_id
             THEN Append(before, u) ELSE before

\* data.map(callback): an exception in a callback leaves the whole map
MapItems(results) ==
  IF \E i \in 1..Len(results) : results[i].threw
    THEN [threw |-> TRUE, rows |-> <<>>]
    ELSE [threw |-> FALSE, rows |-> [i \in 1..Len(results) |-> results[i].row]]

transformUploadedData(data) ==
  MapItems([i \in 1..Len(data) |-> TransformUploadedItem(data[i])])

processUploadData(uploadData) ==
  MapItems([i \in 1..Len(uploadData) |-> ProcessUploadItem(uploadData[i])])

processCompanyData(companyData) ==
  LET results == [i \in 1..Len(companyData) |-> ProcessCompanyItem(companyData[i])]
  IN  [threw |-> FALSE,
       rows |-> [i \in 1..Len(results) |-> results[i].row],
       userList |-> CollectUsers([i \in 1..Len(results) |-> results[i].user])]

\* the raw company records, by what they lack
RawCompany(id, missing) ==
  LET all == missing = "all"
      sdrId == IF missing = "otherSdr" THEN Num(8)
               ELSE IF missing = "sdrNoId" THEN Undefined ELSE Num(7)
  IN  [_id |-> id,
       company_name |-> IF all THEN Undefined ELSE Str(<<"a", "c", "m", "e">>),
       industries |-> IF all THEN Undefined ELSE Array(<<Str(<<"i", "t">>)>>),
       geographies |->
         IF all \/ missing = "geographies" THEN Undefined
         ELSE Array(<<Geography(Str(<<"u", "s">>), Str(<<"w", "e", "s", "t">>),
                          Str(<<"c", "a">>))>>),
       sdr_details |->
         IF all \/ missing = "sdr_details" THEN Undefined
         ELSE SdrDetails(Str(<<"A", "l">>), Str(<<"B", "o">>), sdrId),
       data_source |-> IF all THEN Undefined ELSE Str(<<"c", "r", "m">>),
       revenue |-> IF all THEN Undefined ELSE Num(5),
       prospect_contact_count |-> IF all THEN Undefined ELSE Num(2),
       buyer_intent_score |-> IF all THEN Undefined ELSE Num(4),
       reviewed_by_sdr_date |->
         IF all \/ missing = "reviewed_by_sdr_date" THEN Undefined
         ELSE Str(ValidDate),
       created_date |-> IF all THEN Undefined ELSE Str(ValidDate),
       createdAt |-> Undefined,
       updated_date |-> Undefined,
       updatedAt |-> IF all THEN Undefined ELSE Str(ValidDate)]

RawCompanyIds == {Num(1), Num(2)}
RawCompanyShapes ==
  {"none", "reviewed_by_sdr_date", "sdr_details", "geographies", "all",
   "otherSdr", "sdrNoId"}
RawCompanies ==
  {RawCompany(id, m) : id \in RawCompanyIds, m \in RawCompanyShapes}

Transformers == {"transformUploadedData", "processUploadData", "processCompanyData"}

RawRecordsOf(name) ==
  IF name = "processCompanyData" THEN RawCompanies ELSE RawUploads

TransformerResult(name, data) ==
  IF name = "transformUploadedData" THEN transformUploadedData(data)
  ELSE IF name = "processUploadData" THEN processUploadData(data)
  ELSE [threw |-> processCompanyData(data).threw,
        rows |-> processCompanyData(data).rows]

NotTransformed == [threw |-> FALSE, rows |-> <<>>]

\* the raw records of a response go through the component's transformer
Transform ==
  /\ ~transformDone
  /\ transformDone' = TRUE
  /\ transformed' = TransformerResult(transformer, rawRecords)
  /\ userDetails' = IF transformer = "processCompanyData"
                      THEN processCompanyData(rawRecords).userList
                      ELSE userDetails
  /\ UNCHANGED <<transformer, rawRecords>>
  /\ UNCHANGED <<tableVars, histVars, fetchVars, searchVars, virtualVars, sortVars, uploadVars>>

TransformUnset ==
  /\ transformed = NotTransformed
  /\ userDetails = <<>>
  /\ transformDone = FALSE

TransformIdle ==
  /\ transformer = "processCompanyData"
  /\ rawRecords = <<>>
  /\ TransformUnset

----------------------------------------------------------------------------
(* The list components: one fetch on mount, a Retry button in the error   *)
(* branch, and three render branches (error, loading placeholder, table).  *)

OptimizedCompanyList == "OptimizedCompanyList"
UploadedDataList == "UploadedDataList"
UploadedFileList == "UploadedFileList"
Components == {OptimizedCompanyList, UploadedDataList, UploadedFileList}

\* UploadedFileList declares no error state
HasErrorState(c) == c # UploadedFileList

MaxRecords == 2
MaxFetches == 3

\* the records a server answers with: complete ones and ones that lack
\* fields
FetchedRecords(c) ==
  IF c = OptimizedCompanyList
    THEN {RawCompany(Num(1), "none"), RawCompany(Num(2), "all")}
    ELSE {RawUpload(<<Num(1), Undefined>>, Str(ValidDate), "complete"),
          RawUpload(<<Num(2), Undefined>>, Str(InvalidDate), "bare")}
Results(c) == SeqsUpTo(FetchedRecords(c), MaxRecords)
ServerMessages == {"", "quota exceeded"}

\* what the network and the server can answer to one request
\* what the network and the server can answer to one request: fetch()
\* rejected, response.ok, the body parses, and the body's success, message
\* and result (hasResult: the body carries a result)
Response(rejected, ok, parses, success, message, hasResult, result) ==
  [rejected |-> rejected, ok |-> ok, parses |-> parses, success |-> success,
   message |-> message, hasResult |-> hasResult, result |-> result]
Responses(c) ==
  {Response(TRUE, FALSE, FALSE, FALSE, "", FALSE, <<>>)}
    \cup {Response(FALSE, FALSE, p, FALSE, "", FALSE, <<>>) : p \in BOOLEAN}
    \cup {Response(FALSE, TRUE, FALSE, FALSE, "", FALSE, <<>>)}
    \cup {Response(FALSE, TRUE, TRUE, FALSE, m, FALSE, <<>>) : m \in ServerMessages}
    \cup {Response(FALSE, TRUE, TRUE, TRUE, "", TRUE, r) : r \in Results(c)}
    \cup {Response(FALSE, TRUE, TRUE, TRUE, "", FALSE, <<>>)}

\* a || b on strings
Or(a, b) == IF a # "" THEN a ELSE b

\* the message of the RangeError date-fns raises for an invalid date
InvalidTimeValue == "Invalid time value"

ListState == [rows |-> rows, isLoading |-> isLoading, error |-> error,
              initialLoadComplete |-> initialLoadComplete]

Thrown(message) == [threw |-> TRUE, message |-> message]
NotThrown == [threw |-> FALSE, message |-> ""]

\* the error a rejected fetch() or a rejected response.json() raises
TransportError(resp) ==
  IF resp.rejected THEN Thrown("Failed to fetch")
  ELSE IF ~resp.parses THEN Thrown("Unexpected token in JSON")
  ELSE NotThrown

FinallyKeepLoading(st) == st
\* finally { setIsLoading(false) }
Finally(st) == [st EXCEPT !.isLoading = FALSE]

\* catch (error) of the two components that have an error state
CatchFetchError(st, message, fallback) ==
  [st EXCEPT !.error = Or(message, fallback), !.rows = <<>>]

\* OptimizedCompanyList.fetchAllCompanyData after the response arrived
CompanyTry(resp) ==
  IF resp.rejected THEN TransportError(resp)
  ELSE IF ~resp.ok THEN Thrown("HTTP error! status")
  ELSE IF ~resp.parses THEN TransportError(resp)
  ELSE IF ~resp.success
    THEN Thrown(Or(resp.message, "Failed to fetch company data"))
  ELSE NotThrown

CompanySettle(st, resp) ==
  LET t == CompanyTry(resp)
      companyData == IF resp.hasResult THEN resp.result ELSE <<>>
  IN  IF t.threw
        THEN Finally(CatchFetchError(st, t.message, "Failed to load company data"))
        ELSE Finally([st EXCEPT !.rows = processCompanyData(companyData).rows,
                                !.initialLoadComplete = TRUE])

\* UploadedDataList.uploadedListData after the response arrived
UploadedDataTry(resp) ==
  IF resp.rejected THEN TransportError(resp)
  ELSE IF ~resp.ok THEN Thrown("HTTP error! status")
  ELSE IF ~resp.parses THEN TransportError(resp)
  ELSE IF resp.success /\ resp.hasResult THEN NotThrown
  ELSE Thrown(Or(resp.message, "Failed to fetch data"))

UploadedDataSettle(st, resp) ==
  LET t == UploadedDataTry(resp)
      transformedData == transformUploadedData(resp.result)
      fallback == "An error occurred while fetching data"
  IN  IF t.threw THEN Finally(CatchFetchError(st, t.message, fallback))
      ELSE IF transformedData.threw
        THEN Finally(CatchFetchError(st, InvalidTimeValue, fallback))
      ELSE Finally([st EXCEPT !.rows = transformedData.rows])

\* UploadedFileList.fetchAllUploadData after the response arrived: response.ok
\* is not looked at, a refusal returns after logging, a throw is only logged
UploadedFileSettle(st, resp) ==
  LET t == TransportError(resp)
      uploadData == IF resp.hasResult THEN resp.result ELSE <<>>
      uploadList == processUploadData(uploadData)
  IN  IF t.threw THEN Finally(st)
      ELSE IF ~resp.success THEN Finally(st)
      ELSE IF uploadList.threw THEN Finally(st)
      ELSE Finally([st EXCEPT !.rows = uploadList.rows,
                              !.initialLoadComplete = TRUE])

\* the fetch did not deliver rows: the server refused or an error was thrown
FetchFailed(c, resp) ==
  IF c = OptimizedCompanyList THEN CompanyTry(resp).threw
  ELSE IF c = UploadedDataList
    THEN UploadedDataTry(resp).threw \/ transformUploadedData(resp.result).threw
  ELSE \/ TransportError(resp).threw
       \/ ~resp.success
       \/ processUploadData(IF resp.hasResult THEN resp.result ELSE <<>>).threw

SettleOf(c, st, resp) ==
  IF c = OptimizedCompanyList THEN CompanySettle(st, resp)
  ELSE IF c = UploadedDataList THEN UploadedDataSettle(st, resp)
  ELSE UploadedFileSettle(st, resp)

\* a fetch function that goes to the network without looking at the storage
NoCredentialsCheck(c) == ""

\* the credentials check in front of the request
MissingCredentials(c) ==
  IF c = OptimizedCompanyList /\ (~hasProjectId \/ ~hasToken)
    THEN "Missing authentication credentials"
  ELSE IF c = UploadedDataList /\ ~hasToken
    THEN "Authentication token not found"
  ELSE ""

NoFailure == [failed |-> FALSE, message |-> ""]
Failure(message) == [failed |-> TRUE, message |-> message]

SetListState(st) ==
  /\ rows' = st.rows
  /\ isLoading' = st.isLoading
  /\ error' = st.error
  /\ initialLoadComplete' = st.initialLoadComplete

\* the start of fetchAllCompanyData / uploadedListData / fetchAllUploadData,
\* up to the first await
StartFetch ==
  LET started == [ListState EXCEPT !.isLoading = TRUE,
                    !.error = IF HasErrorState(component) THEN "" ELSE @]
      missing == MissingCredentials(component)
      fallback == IF component = OptimizedCompanyList
                    THEN "Failed to load company data"
                    ELSE "An error occurred while fetching data"
  IN  /\ fetchCalls' = fetchCalls + 1
      /\ IF missing # ""
          THEN /\ SetListState(Finally(CatchFetchError(started, missing, fallback)))
               /\ inFlight' = FALSE
               /\ lastFailure' = Failure("")
          ELSE /\ SetListState(started)
               /\ inFlight' = TRUE
               /\ lastFailure' = NoFailure

\* useEffect(() => { fetch...() }, [fetch...])
ListMount ==
  /\ ~listMounted
  /\ listMounted' = TRUE
  /\ StartFetch
  /\ UNCHANGED <<component, hasToken, hasProjectId, everSucceeded>>
  /\ UNCHANGED <<tableVars, histVars, searchVars, transformVars, virtualVars, sortVars, uploadVars>>

\* a Retry button that is rendered in every branch
RetryOfferedAlways == listMounted

\* the Retry button is rendered in the error branch only
RetryOffered == listMounted /\ error # ""

\* a click on Retry
handleRetry ==
  /\ RetryOffered
  /\ fetchCalls < MaxFetches
  /\ StartFetch
  /\ UNCHANGED <<component, hasToken, hasProjectId, listMounted, everSucceeded>>
  /\ UNCHANGED <<tableVars, histVars, searchVars, transformVars, virtualVars, sortVars, uploadVars>>

\* the awaited request settles and the rest of the function runs
Settle(resp) ==
  /\ inFlight
  /\ inFlight' = FALSE
  /\ SetListState(SettleOf(component, ListState, resp))
  /\ everSucceeded' = (everSucceeded \/ ~FetchFailed(component, resp))
  /\ lastFailure' = IF FetchFailed(component, resp)
                      THEN Failure(IF resp.ok /\ resp.parses /\ ~resp.success
                                     THEN resp.message ELSE "")
                      ELSE NoFailure
  /\ UNCHANGED <<component, hasToken, hasProjectId, listMounted, fetchCalls>>
  /\ UNCHANGED <<tableVars, histVars, searchVars, transformVars, virtualVars, sortVars, uploadVars>>

\* the page is left: the component's state is dropped, a response that
\* arrives later finds nothing to update
ListUnmount ==
  /\ listMounted
  /\ listMounted' = FALSE
  /\ rows' = <<>>
  /\ isLoading' = FALSE
  /\ error' = ""
  /\ initialLoadComplete' = FALSE
  /\ inFlight' = FALSE
  /\ everSucceeded' = FALSE
  /\ lastFailure' = NoFailure
  /\ fetchCalls' = 0
  /\ UNCHANGED <<component, hasToken, hasProjectId>>
  /\ UNCHANGED <<tableVars, histVars, searchVars, transformVars, virtualVars, sortVars, uploadVars>>

\* the user logs in or out in between (localStorage "token")
SetToken(present) ==
  /\ hasToken # present
  /\ hasToken' = present
  /\ UNCHANGED <<component, hasProjectId, listMounted, rows, isLoading, error,
                 initialLoadComplete, inFlight, everSucceeded, lastFailure,
                 fetchCalls>>
  /\ UNCHANGED <<tableVars, histVars, searchVars, transformVars, virtualVars, sortVars, uploadVars>>

\* a project is selected or dropped in between (localStorage "project_id")
SetProjectId(present) ==
  /\ hasProjectId # present
  /\ hasProjectId' = present
  /\ UNCHANGED <<component, hasToken, listMounted, rows, isLoading, error,
                 initialLoadComplete, inFlight, everSucceeded, lastFailure,
                 fetchCalls>>
  /\ UNCHANGED <<tableVars, histVars, searchVars, transformVars, virtualVars, sortVars, uploadVars>>

\* the render branches, in the order the component tests them
ErrorBranch == listMounted /\ error # ""
LoadingPlaceholder ==
  /\ listMounted
  /\ ~ErrorBranch
  /\ IF component = UploadedDataList
       THEN isLoading /\ Len(rows) = 0
       ELSE ~initialLoadComplete /\ isLoading

FetchUnset ==
  /\ listMounted = FALSE
  /\ rows = <<>>
  /\ isLoading = FALSE
  /\ error = ""
  /\ initialLoadComplete = FALSE
  /\ inFlight = FALSE
  /\ everSucceeded = FALSE
  /\ lastFailure = NoFailure
  /\ fetchCalls = 0

FetchInit ==
  /\ component \in Components
  /\ hasToken \in BOOLEAN
  /\ hasProjectId \in BOOLEAN
  /\ FetchUnset

FetchIdle ==
  /\ component = OptimizedCompanyList
  /\ hasToken = FALSE
  /\ hasProjectId = FALSE
  /\ FetchUnset

----------------------------------------------------------------------------
(* The global search: performGlobalSearch computes the rows counted in the *)
(* toolbar, globalFilterFn decides the rows the table shows.               *)

MaxRows == 2
MaxTermLen == 2

SearchChars == {"a", "A", "b", " "}

searchTermLowerNoCase(term) == Trim(term)
\* searchTerm.toLowerCase().trim()
searchTermLower(term) == Trim(ToLowerCase(term))

\* the callback of data.filter in performGlobalSearch
SearchMatches(row, key, term) ==
  IF key # "" /\ TruthyValue(row[key])
    THEN Includes(ToLowerCase(row[key].s), searchTermLower(term))
    ELSE \E value \in ObjectValues(row) :
           /\ ~Nullish(value)
           /\ Includes(ToLowerCase(String(value)), searchTermLower(term))

\* a search that also leaves out the first row it is given
performGlobalSearchSkipFirst(key, term, data) ==
  IF term = <<>> \/ Trim(term) = <<>> THEN data
  ELSE LET test(row) == SearchMatches(row, key, term)
       IN  IF data = <<>> THEN <<>> ELSE SelectSeq(Tail(data), test)

performGlobalSearch(key, term, data) ==
  IF term = <<>> \/ Trim(term) = <<>> THEN data
  ELSE LET test(row) == SearchMatches(row, key, term)
       IN  SelectSeq(data, test)

\* the globalFilterFn option given to the table when searchableTextKey is set
globalFilterFn(row, key, filterValue) ==
  IF filterValue = <<>> THEN TRUE
  ELSE IF TruthyValue(row[key])
    THEN Includes(ToLowerCase(row[key].s), ToLowerCase(filterValue))
    ELSE FALSE

\* the filtered row model of the table (data: tableData, client-side filter)
FilteredRowModel(key, filterValue, data) ==
  LET test(row) == globalFilterFn(row, key, filterValue)
  IN  SelectSeq(data, test)

NameValues == {Null, Str(<<"A", "b">>)}
CountValues == {Null, Num(7)}
SearchableTextValues ==
  {Null, Str(<<>>), Str(<<"A">>), Str(<<"a", "b">>), Str(<<"b">>)}
TableRows ==
  [name : NameValues, count : CountValues, searchableText : SearchableTextValues]

SearchTerms == SeqsUpTo(SearchChars, MaxTermLen)

\* the user's term has reached the globalFilter state: filteredData is
\* recomputed and the table filters its rows
Search(term) ==
  /\ searchTerm' = term
  /\ filteredData' = performGlobalSearch(searchableTextKey, term, tableData)
  /\ shownRows' = FilteredRowModel(searchableTextKey, term, tableData)
  /\ searched' = TRUE
  /\ UNCHANGED <<searchableTextKey, tableData>>
  /\ UNCHANGED <<tableVars, histVars, fetchVars, transformVars, virtualVars, sortVars, uploadVars>>

SearchUnset ==
  /\ searchTerm = <<>>
  /\ filteredData = tableData
  /\ shownRows = tableData
  /\ searched = FALSE

SearchInit ==
  /\ searchableTextKey = "searchableText"
  /\ tableData \in SeqsUpTo(TableRows, MaxRows)
  /\ SearchUnset

SearchIdle ==
  /\ searchableTextKey = ""
  /\ tableData = <<>>
  /\ SearchUnset

----------------------------------------------------------------------------
(* Virtualization: the settings OptimizedCompanyList derives from the size *)
(* of its dataset, and the options DataTable derives from its props.       *)

MaxColumns == 12

\* the row counts a dataset and its filtered rows are drawn from
DataSizes == {0, 1, 100, 101, 1000, 1001}

DataTableHost == "DataTable"
Hosts == {DataTableHost, OptimizedCompanyList}

\* OptimizedCompanyList.virtualizationSettings
virtualizationSettings(size) ==
  IF size > 1000
    THEN [enableVirtualization |-> TRUE, virtualItemSize |-> 55, overscan |-> 10]
  ELSE IF size > 100
    THEN [enableVirtualization |-> TRUE, virtualItemSize |-> 55, overscan |-> 15]
  ELSE [enableVirtualization |-> FALSE, virtualItemSize |-> 55, overscan |-> 5]

\* the props OptimizedCompanyList renders its DataTable with
CompanyListProps(size) ==
  [enableVirtualization |-> virtualizationSettings(size).enableVirtualization,
   virtualItemSize |-> virtualizationSettings(size).virtualItemSize,
   overscan |-> virtualizationSettings(size).overscan,
   enablePagination |-> FALSE]

\* the props another page gives: the defaults, with the two switches set
PageProps ==
  [enableVirtualization : BOOLEAN, virtualItemSize : {50}, overscan : {5},
   enablePagination : BOOLEAN]

\* DataTable.virtualizationOptions; {} leaves the table's defaults, which
\* virtualize nothing
virtualizationOptions(p, columnsLength) ==
  IF ~p.enableVirtualization
    THEN [enableRowVirtualization |-> FALSE, enableColumnVirtualization |-> FALSE]
    ELSE [enableRowVirtualization |-> TRUE,
          enableColumnVirtualization |-> columnsLength > 10]

PropsOf(h, p, size) == IF h = OptimizedCompanyList THEN CompanyListProps(size) ELSE p

\* a new dataset arrives and the component renders again
SetData(size) ==
  /\ size # dataSize
  /\ dataSize' = size
  /\ filteredCount' = size
  /\ props' = PropsOf(host, props, size)
  /\ tableOptions' = virtualizationOptions(props', columnCount)
  /\ UNCHANGED <<host, columnCount>>
  /\ UNCHANGED <<tableVars, histVars, fetchVars, searchVars, transformVars, sortVars, uploadVars>>

\* a search or a column filter leaves count of the rows; the memoized
\* settings and options do not depend on it
FilterTo(count) ==
  /\ count <= dataSize
  /\ count # filteredCount
  /\ filteredCount' = count
  /\ UNCHANGED <<host, columnCount, props, dataSize, tableOptions>>
  /\ UNCHANGED <<tableVars, histVars, fetchVars, searchVars, transformVars, sortVars, uploadVars>>

VirtualInit ==
  /\ host \in Hosts
  /\ columnCount \in 0..MaxColumns
  /\ dataSize = 0
  /\ filteredCount = 0
  /\ props \in IF host = OptimizedCompanyList THEN {CompanyListProps(0)}
               ELSE PageProps
  /\ tableOptions = virtualizationOptions(props, columnCount)

VirtualIdle ==
  /\ host = DataTableHost
  /\ columnCount = 0
  /\ dataSize = 0
  /\ filteredCount = 0
  /\ props = [enableVirtualization |-> TRUE, virtualItemSize |-> 50,
              overscan |-> 5, enablePagination |-> FALSE]
  /\ tableOptions = virtualizationOptions(props, columnCount)

----------------------------------------------------------------------------
(* Sorting the upload logs by a count column (UploadedFileList columns)    *)

MaxSortRows == 3

\* the counts the logs carry: 9 and 10 order differently as numbers and as
\* texts
SortCounts == {0, 9, 10, 11}

CountColumns == {"companies_imported", "contacts_imported",
                 "companies_researched", "contacts_researched",
                 "total_rows_skipped"}

\* the row's field that holds the count the way the column shows it
DisplayOf(row, column) == row[column]

\* the row's field that holds the number, row.original.<column>_raw
RawOf(row, column) ==
  CASE column = "companies_imported" -> row.companies_imported_raw
    [] column = "contacts_imported" -> row.contacts_imported_raw
    [] column = "companies_researched" -> row.companies_researched_raw
    [] column = "contacts_researched" -> row.contacts_researched_raw
    [] column = "total_rows_skipped" -> row.total_rows_skipped_raw

\* the place of a digit text in the lexicographic order of texts
RECURSIVE TextOrder(_, _)
TextOrder(a, b) ==
  IF a = <<>> /\ b = <<>> THEN 0
  ELSE IF a = <<>> THEN -1
  ELSE IF b = <<>> THEN 1
  ELSE LET da == CHOOSE d \in 1..10 : Digits[d] = Head(a)
           db == CHOOSE d \in 1..10 : Digits[d] = Head(b)
       IN  IF da # db THEN da - db ELSE TextOrder(Tail(a), Tail(b))

\* a comparator on the texts the column shows
sortingFnByDisplay(column, rowA, rowB) ==
  TextOrder(DisplayOf(rowA, column).s, DisplayOf(rowB, column).s)

\* sortingFn of the count columns
sortingFn(column, rowA, rowB) ==
  OrValue(RawOf(rowA, column), Num(0)).n - OrValue(RawOf(rowB, column), Num(0)).n

\* the table's ascending sort with the column's comparator: a stable sort
RECURSIVE SortAscending(_, _)
SortAscending(column, data) ==
  IF data = <<>> THEN <<>>
  ELSE LET sorted == SortAscending(column, SubSeq(data, 1, Len(data) - 1))
           x == data[Len(data)]
           k == Cardinality({i \in 1..Len(sorted) :
                               sortingFn(column, sorted[i], x) <= 0})
       IN  SubSeq(sorted, 1, k) \o <<x>> \o SubSeq(sorted, k + 1, Len(sorted))

\* the i-th upload log, every count of it n
CountedUpload(i, n) ==
  [RawUpload(<<Num(i), Undefined>>, Str(ValidDate), "complete")
     EXCEPT !.total_new_companies = Num(n),
            !.total_new_contacts = Num(n),
            !.total_companies_market_researched = Num(n),
            !.total_contacts_market_researched = Num(n),
            !.total_skipped = Num(n)]

CountedUploads ==
  UNION {[1..len -> SortCounts] : len \in 0..MaxSortRows}

\* a click on the header of a count column
SortByColumn ==
  /\ ~sortDone
  /\ sortDone' = TRUE
  /\ sortedRows' = SortAscending(sortColumn, processUploadData(sortRaw).rows)
  /\ UNCHANGED <<sortRaw, sortColumn>>
  /\ UNCHANGED <<tableVars, histVars, fetchVars, searchVars, transformVars, virtualVars, uploadVars>>

\* the sorting is taken off again
Unsort ==
  /\ sortDone
  /\ sortDone' = FALSE
  /\ sortedRows' = processUploadData(sortRaw).rows
  /\ UNCHANGED <<sortRaw, sortColumn>>
  /\ UNCHANGED <<tableVars, histVars, fetchVars, searchVars, transformVars, virtualVars, uploadVars>>

SortInit ==
  /\ sortColumn \in CountColumns
  /\ \E counts \in CountedUploads :
       sortRaw = [i \in 1..Len(counts) |-> CountedUpload(i, counts[i])]
  /\ sortedRows = processUploadData(sortRaw).rows
  /\ sortDone = FALSE

SortIdle ==
  /\ sortColumn = "companies_imported"
  /\ sortRaw = <<>>
  /\ sortedRows = <<>>
  /\ sortDone = FALSE

----------------------------------------------------------------------------
(* The collateral upload dialog: handleFileUpload and its progress timer.  *)
(* Time is counted in periods of the progress interval (200 ms).           *)

MaxUploads == 3

\* setTimeout(resolve, 2000), in periods of the 200 ms interval
ApiDelay == 10
NoApiCall == -1

\* the callbacks of n live intervals, one after the other:
\* setUploadProgress(prev => prev >= 100 ? (clearInterval, 100) : prev + 10)
RECURSIVE RunIntervals(_, _)
RunIntervals(n, prev) ==
  IF n = 0 THEN [progress |-> prev, live |-> 0]
  ELSE LET rest == RunIntervals(n - 1, IF prev >= 100 THEN 100 ELSE prev + 10)
       IN  [progress |-> rest.progress,
            live |-> rest.live + (IF prev >= 100 THEN 0 ELSE 1)]

handleFileSelect ==
  /\ uploadDialogOpen
  /\ ~selectedFile
  /\ selectedFile' = TRUE
  /\ UNCHANGED <<uploadDialogOpen, uploading, uploadProgress, liveIntervals,
                 apiLeft, uploadsStarted>>
  /\ UNCHANGED <<tableVars, histVars, fetchVars, searchVars, transformVars, virtualVars, sortVars>>

handleUploadClick ==
  /\ ~uploadDialogOpen
  /\ uploadDialogOpen' = TRUE
  /\ UNCHANGED <<selectedFile, uploading, uploadProgress, liveIntervals,
                 apiLeft, uploadsStarted>>
  /\ UNCHANGED <<tableVars, histVars, fetchVars, searchVars, transformVars, virtualVars, sortVars>>

handleDialogClose ==
  /\ uploadDialogOpen
  /\ ~uploading
  /\ uploadDialogOpen' = FALSE
  /\ selectedFile' = FALSE
  /\ UNCHANGED <<uploading, uploadProgress, liveIntervals, apiLeft,
                 uploadsStarted>>
  /\ UNCHANGED <<tableVars, histVars, fetchVars, searchVars, transformVars, virtualVars, sortVars>>

\* handleFileUpload up to the await; the Upload button is disabled without a
\* file and during an upload
handleFileUpload ==
  /\ uploadDialogOpen
  /\ selectedFile
  /\ ~uploading
  /\ uploadsStarted < MaxUploads
  /\ uploadsStarted' = uploadsStarted + 1
  /\ uploading' = TRUE
  /\ uploadProgress' = 0
  /\ liveIntervals' = liveIntervals + 1
  /\ apiLeft' = ApiDelay
  /\ UNCHANGED <<selectedFile, uploadDialogOpen>>
  /\ UNCHANGED <<tableVars, histVars, fetchVars, searchVars, transformVars, virtualVars, sortVars>>

\* one period passes and every live interval runs its callback
IntervalTick ==
  /\ liveIntervals > 0 \/ apiLeft > 0
  /\ apiLeft # 0
  /\ uploadProgress' = RunIntervals(liveIntervals, uploadProgress).progress
  /\ liveIntervals' = RunIntervals(liveIntervals, uploadProgress).live
  /\ apiLeft' = IF apiLeft = NoApiCall THEN NoApiCall ELSE apiLeft - 1
  /\ UNCHANGED <<selectedFile, uploadDialogOpen, uploading, uploadsStarted>>
  /\ UNCHANGED <<tableVars, histVars, fetchVars, searchVars, transformVars, virtualVars, sortVars>>

\* the awaited timeout resolves and the rest of handleFileUpload runs, the
\* finally block included
UploadResolved ==
  /\ apiLeft = 0
  /\ apiLeft' = NoApiCall
  /\ selectedFile' = FALSE
  /\ uploadDialogOpen' = FALSE
  /\ uploading' = FALSE
  /\ uploadProgress' = 0
  /\ UNCHANGED <<liveIntervals, uploadsStarted>>
  /\ UNCHANGED <<tableVars, histVars, fetchVars, searchVars, transformVars, virtualVars, sortVars>>

UploadIdle ==
  /\ selectedFile = FALSE
  /\ uploadDialogOpen = FALSE
  /\ uploading = FALSE
  /\ uploadProgress = 0
  /\ liveIntervals = 0
  /\ apiLeft = NoApiCall
  /\ uploadsStarted = 0

----------------------------------------------------------------------------
Init == TableInit /\ FetchIdle /\ SearchIdle /\ TransformIdle /\ VirtualIdle /\ SortIdle /\ UploadIdle

Next ==
  \/ Mount
  \/ Unmount
  \/ \E v \in ColumnFilterVals : SetColumnFilters(v)
  \/ \E v \in SortingVals : SetSorting(v)
  \/ \E term \in TypedTerms : TypeSearch(term)
  \/ clearAllFilters
  \/ FireSave
  \/ FireSearch
  \/ Tick

Spec == Init /\ [][Next]_vars

InitFresh ==
  /\ Init
  /\ storageKeysDefined
  /\ \A k \in KeysOf(tableId) : store[k] = NoItem

\* a page whose table persists its view and whose store holds nothing of it
\* yet
SpecFresh == InitFresh /\ [][Next]_vars

InitFetch == TableIdle /\ FetchInit /\ SearchIdle /\ TransformIdle /\ VirtualIdle /\ SortIdle /\ UploadIdle

NextFetch ==
  \/ ListMount
  \/ handleRetry
  \/ \E resp \in Responses(component) : Settle(resp)
  \/ ListUnmount
  \/ \E present \in BOOLEAN : SetToken(present)
  \/ \E present \in BOOLEAN : SetProjectId(present)

\* a page that shows one of the list components
SpecFetch == InitFetch /\ [][NextFetch]_vars

InitSearch == TableIdle /\ FetchIdle /\ SearchInit /\ TransformIdle /\ VirtualIdle /\ SortIdle /\ UploadIdle

NextSearch == \E term \in SearchTerms : Search(term)

\* a table over some rows and a search term typed into it
SpecSearch == InitSearch /\ [][NextSearch]_vars

InitTransform ==
  /\ TableIdle /\ FetchIdle /\ SearchIdle /\ VirtualIdle /\ SortIdle /\ UploadIdle
  /\ transformer \in Transformers
  /\ rawRecords \in SeqsUpTo(RawRecordsOf(transformer), MaxRaw)
  /\ TransformUnset

NextTransform == Transform

\* the raw records of one response and the rows made of them
SpecTransform == InitTransform /\ [][NextTransform]_vars

InitVirtual ==
  /\ TableIdle /\ FetchIdle /\ SearchIdle /\ TransformIdle /\ SortIdle /\ UploadIdle
  /\ VirtualInit

NextVirtual ==
  \/ \E size \in DataSizes : SetData(size)
  \/ \E count \in DataSizes : FilterTo(count)

\* a table that is rendered over datasets of several sizes
SpecVirtual == InitVirtual /\ [][NextVirtual]_vars

InitSort ==
  /\ TableIdle /\ FetchIdle /\ SearchIdle /\ TransformIdle /\ VirtualIdle /\ UploadIdle
  /\ SortInit

NextSort == SortByColumn \/ Unsort

\* the upload logs sorted by one of their count columns
SpecSort == InitSort /\ [][NextSort]_vars

InitUpload ==
  /\ TableIdle /\ FetchIdle /\ SearchIdle /\ TransformIdle /\ VirtualIdle /\ SortIdle
  /\ UploadIdle

NextUpload ==
  \/ handleUploadClick
  \/ handleFileSelect
  \/ handleDialogClose
  \/ handleFileUpload
  \/ IntervalTick
  \/ UploadResolved

\* the upload dialog of the collaterals page
SpecUpload == InitUpload /\ [][NextUpload]_vars

----------------------------------------------------------------------------
(* Properties *)

InMemory(a) ==
  IF a = "columnFilters" THEN columnFilters
  ELSE IF a = "globalFilter" THEN globalFilter ELSE sorting

ViewEmpty == columnFilters = <<>> /\ globalFilter = <<>> /\ sorting = <<>>

MountStep == ~mounted /\ mounted'

\* C1: persistence round trip.  When every aspect of a view state has been
\* saved (and the debounce has flushed), the next mount restores exactly
\* that state, the search string as typed; a table whose keys were never
\* written mounts with the empty state.
C1_RoundTrip ==
  [][(MountStep /\ storageKeysDefined) =>
       /\ (\A a \in AspectSet : written[a] # NoItem) =>
             /\ columnFilters' = written["columnFilters"]
             /\ globalFilter' = written["globalFilter"]
             /\ sorting' = written["sorting"]
       /\ (\A a \in AspectSet : store[storageKeys[a]] = NoItem) => ViewEmpty'
    ]_vars

\* the persisted text of an aspect is the one a save of the in-memory value
\* writes (an absent key counts as the empty value)
PersistedIsCurrent(a) ==
  \/ store[storageKeys[a]] = JSONStringify(storageKeys[a], InMemory(a))
  \/ store[storageKeys[a]] = NoItem /\ InMemory(a) = <<>>

\* C2: debouncing loses no final state.  Once no timeout is pending (the
\* quiet period has outlasted the debounce window), every aspect's persisted
\* value is its current in-memory value.
C2_FinalStatePersisted ==
  (mounted /\ storageKeysDefined /\ timers = <<>>) =>
     \A a \in AspectSet : PersistedIsCurrent(a)

\* C3: after clear-all, and as long as no further user action happens, none
\* of the three storage keys of the table holds a value, also after the
\* pending debounced saves have fired.
C3_ClearRemovesEntry ==
  (sinceClear /\ storageKeysDefined) =>
     \A a \in AspectSet : store[storageKeys[a]] = NoItem

\* C4: clearAllFilters leaves column filters, global search and sorting
\* empty, after one invocation and after two invocations in succession alike.
C4_ClearAllIdempotent == clearRun >= 1 => ViewEmpty

C4_Witness == clearRun = 2 /\ ViewEmpty /\ mounted

Corrupt(a) ==
  /\ Truthy(store[storageKeys[a]])
  /\ ~JSONParse(store[storageKeys[a]]).ok

PendingOf(o) == {i \in 1..Len(timers) : timers[i].owner = o}

\* C10: debounce cancellation.  A debounced function never has two timeouts
\* pending: a call clears the pending one.  The pending timeout carries the
\* arguments of the last call and is due one full delay after that call, and
\* a burst that was called is always followed by its one invocation.
C10_DebounceCancels ==
  \A o \in Owners :
    /\ Cardinality(PendingOf(o)) <= 1
    /\ \A i \in PendingOf(o) :
          /\ Call(o, timers[i].key, timers[i].value) = lastCall[o]
          /\ timers[i].left = Delay(o) - sinceCall[o]
    /\ lastCall[o] # NoCall => PendingOf(o) # {}

\* a save burst in which a pending timeout was cleared has run its one
\* invocation, and a search timeout is pending next to a save timeout
C10_Witness ==
  /\ cancelled
  /\ \E a \in AspectSet : written[a] # NoItem
  /\ PendingOf("save") # {} /\ PendingOf("search") # {}


\* C5: every failed fetch (an answer with success: false, or a thrown
\* error) leaves the list component, whichever it is, with its error state
\* set to a message (the server's message when it sent one) and its rows
\* reset to the empty list.
C5_FailedFetchSetsError ==
  (listMounted /\ lastFailure.failed) =>
     /\ error # ""
     /\ rows = <<>>
     /\ (lastFailure.message # "" => error = lastFailure.message)

TableRendered == listMounted /\ ~ErrorBranch /\ ~LoadingPlaceholder

\* C6: the loading placeholder is shown only before the first successful
\* fetch; once a fetch has succeeded, with however many rows, the table is
\* what the component renders.
C6_PlaceholderOnlyBeforeSuccess ==
  /\ LoadingPlaceholder => ~everSucceeded
  /\ everSucceeded => TableRendered

C6_Witness ==
  /\ component = UploadedDataList
  /\ everSucceeded
  /\ rows = <<>>
  /\ TableRendered

\* the row carries a searchableText as the row transformers build it
HasLowercaseText(row) ==
  /\ TruthyValue(row.searchableText)
  /\ ToLowerCase(row.searchableText.s) = row.searchableText.s

AllHaveLowercaseText ==
  \A i \in 1..Len(tableData) : HasLowercaseText(tableData[i])

TextContainsTerm(row) ==
  Includes(row.searchableText.s, Trim(ToLowerCase(searchTerm)))

\* C7: performGlobalSearch returns all rows for the empty term; for any
\* other term it returns exactly the rows, in their original order, whose
\* searchableText contains the lowercased and trimmed term.
C7_GlobalSearchResult ==
  searched =>
    /\ searchTerm = <<>> => filteredData = tableData
    /\ (searchTerm # <<>> /\ AllHaveLowercaseText) =>
          filteredData = SelectSeq(tableData, TextContainsTerm)

C7_Witness ==
  /\ searched
  /\ searchTerm = <<"A", " ">>
  /\ AllHaveLowercaseText
  /\ Len(tableData) = 2
  /\ filteredData = <<tableData[2]>>

FieldContainsTerm(row) ==
  \E value \in ObjectValues(row) :
    /\ ~Nullish(value)
    /\ Includes(ToLowerCase(String(value)), Trim(ToLowerCase(searchTerm)))

\* C8: with a search term active, a row that has no searchableText value is
\* among the rows the table shows iff the lowercased string form of one of
\* its non-null field values contains the term.
C8_FallbackInTable ==
  (searched /\ searchTerm # <<>>) =>
    \A i \in 1..Len(tableData) :
      ~TruthyValue(tableData[i].searchableText) =>
        ((\E j \in 1..Len(shownRows) : shownRows[j] = tableData[i])
           <=> FieldContainsTerm(tableData[i]))

\* C15: the storage keys of two tables with distinct tableIds are disjoint,
\* and what a table saves or clears leaves the entries of the other tables
\* as they were.
C15_KeysNamespaced ==
  /\ \A t1, t2 \in TableIds \cup OtherIds :
        t1 # t2 => KeysOf(t1) \cap KeysOf(t2) = {}
  /\ \A tid \in OtherIds : \A k \in KeysOf(tid) :
        tableId # tid => store[k] = OtherEntry(k)

C15_Witness ==
  /\ mounted
  /\ storageKeysDefined
  /\ written["sorting"] = <<"s">>
  /\ store[storageKeys["sorting"]] = JSONStringifyArray(<<"s">>)
  /\ store[storageKeys["columnFilters"]] = NoItem
  /\ \A k \in KeysOf(<<"t1", "_", "sorting">>) : store[k] = OtherEntry(k)

\* C17: the persisted view state is read from storage on mount only, at
\* most once in the lifetime of a table; no later render reads it again.
C17_LoadOnce ==
  [][loads' # loads =>
       \/ MountStep /\ loads' <= 1
       \/ ~mounted' /\ loads' = 0]_vars

C17_Witness ==
  /\ mounted
  /\ mounts = 2
  /\ loads = 1
  /\ clearRun = 2

\* C16: no automatic retry.  The fetch function is called once on mount and
\* afterwards only from the error branch, by a click on Retry, and one click
\* is one call; a fetch that settles, failed or not, starts no other.
C16_NoAutomaticRetry ==
  [][fetchCalls' # fetchCalls =>
       \/ ~listMounted' /\ fetchCalls' = 0
       \/ /\ fetchCalls' = fetchCalls + 1
          /\ ~listMounted \/ ErrorBranch]_vars

C16_Witness ==
  /\ listMounted
  /\ fetchCalls = 2
  /\ inFlight

CredentialsMissing ==
  ~hasToken \/ (component = OptimizedCompanyList /\ ~hasProjectId)

\* C18: when the token (for the company list also the project id) is
\* missing from storage, a call of the fetch function of the company list or
\* of the uploaded-data list sends no request and ends in the error state,
\* the loading flag cleared.
C18_TokenValidation ==
  [][(/\ fetchCalls' = fetchCalls + 1
      /\ component \in {OptimizedCompanyList, UploadedDataList}
      /\ CredentialsMissing) =>
       (~inFlight' /\ error' # "" /\ ~isLoading')]_vars

C18_Witness ==
  /\ component = OptimizedCompanyList
  /\ listMounted
  /\ fetchCalls = 2
  /\ hasToken /\ ~hasProjectId
  /\ error = "Missing authentication credentials"
  /\ ~inFlight /\ ~isLoading

\* C20: filtering is idempotent.  The global search with a term, applied to
\* the rows the same search returned, returns those rows again.
C20_FilterIdempotent ==
  searched =>
    performGlobalSearch(searchableTextKey, searchTerm, filteredData)
      = filteredData

C20_Witness ==
  /\ searched
  /\ Trim(searchTerm) # <<>>
  /\ Len(tableData) = 2
  /\ filteredData = <<tableData[1]>>
  /\ ~TruthyValue(tableData[1].searchableText)

UploadTransformers == {"transformUploadedData", "processUploadData"}

\* the strings the transformers put in the place of a value that is missing
Placeholders == {Str(UnknownDate), Str(UnknownFile), Str(Unknown), Str(Dashes)}

\* the record lacks nothing, its date left aside
OnlyDateMayLack(item) ==
  \E ids \in RawIds, d \in {Undefined, Null, Str(ValidDate)} :
    item = RawUpload(ids, d, "complete")

\* C11: for every raw record whose created_at is missing or null, the row
\* transformer of the upload logs produces a row whose date display field is
\* the placeholder string; it neither raises nor yields null or undefined.
\* Stated for responses whose records lack nothing but the date, so that
\* nothing else can make the transformer raise.
C11_DatePlaceholder ==
  (/\ transformDone
   /\ transformer \in UploadTransformers
   /\ \A i \in 1..Len(rawRecords) : OnlyDateMayLack(rawRecords[i])) =>
    \A i \in 1..Len(rawRecords) :
      Nullish(rawRecords[i].created_at) =>
        /\ ~transformed.threw
        /\ transformed.rows[i].uploadedDate \in Placeholders

\* the row the transformer's callback makes of one record
ItemResult(name, item) ==
  IF name = "transformUploadedData" THEN TransformUploadedItem(item)
  ELSE IF name = "processUploadData" THEN ProcessUploadItem(item)
  ELSE [threw |-> ProcessCompanyItem(item).threw,
        row |-> ProcessCompanyItem(item).row]

\* every field of every record is a well-formed value, missing or null: no
\* record carries a date text that is not a date
FieldsMissingOrNullOnly ==
  transformer \in UploadTransformers =>
    \A i \in 1..Len(rawRecords) : rawRecords[i].created_at # Str(InvalidDate)

\* C12: the row transformers never raise and never drop a row: whatever
\* fields of the raw records are missing or null, the transformer returns
\* exactly one row per record, in the order of the records.
C12_OneRowPerRecord ==
  (transformDone /\ FieldsMissingOrNullOnly) =>
    /\ ~transformed.threw
    /\ Len(transformed.rows) = Len(rawRecords)
    /\ \A i \in 1..Len(rawRecords) :
         transformed.rows[i] = ItemResult(transformer, rawRecords[i]).row

\* the identifier a raw record comes with
RawId(name, item) ==
  IF name = "processCompanyData" THEN item._id ELSE OrValue(item._id, item.id)

RawIdsDistinct ==
  \A i, j \in 1..Len(rawRecords) :
    i # j => RawId(transformer, rawRecords[i]) # RawId(transformer, rawRecords[j])

\* C13: every row a row transformer produces, company row or upload-log row,
\* carries an id, and the ids of the rows are pairwise distinct whenever the
\* identifiers of the raw records are.
C13_RowsCarryIds ==
  (transformDone /\ ~transformed.threw) =>
    /\ \A i \in 1..Len(transformed.rows) :
         /\ "id" \in DOMAIN transformed.rows[i]
         /\ ~Nullish(transformed.rows[i].id)
    /\ RawIdsDistinct =>
         \A i, j \in 1..Len(transformed.rows) :
           i # j => transformed.rows[i].id # transformed.rows[j].id

SearchableTransformers == {"transformUploadedData", "processCompanyData"}

\* the fields of a row that the columns of its table show (the column
\* headers are imported from OutReachDetails/CommonColumnHeadr)
DisplayedFields(name) ==
  IF name = "processCompanyData"
    THEN {"company_name", "industries", "buyer_intent_score", "revenue",
          "geography", "sdr", "reviewed_by_sdr_date",
          "prospect_contact_count", "data_source"}
    ELSE {"fileName", "uploadedDate", "total_rowes", "companies_imported",
          "contacts_imported", "companies_researched", "contacts_researched",
          "total_rows_skipped", "status"}

\* the global search for the text finds the row
SearchReturns(row, text, data) ==
  LET found == performGlobalSearch("searchableText", text, data)
  IN  \E k \in 1..Len(found) : found[k] = row

\* C14: searchableText covers all visible column data: for every row made by
\* transformUploadedData or processCompanyData and every displayed field of
\* it, placeholders included, the lowercased displayed value is a substring
\* of the row's searchableText, so that a global search for the displayed
\* value returns the row.
C14_SearchableTextCovers ==
  (transformDone /\ transformer \in SearchableTransformers
                 /\ ~transformed.threw) =>
    \A i \in 1..Len(transformed.rows) :
      \A f \in DisplayedFields(transformer) :
        LET row == transformed.rows[i]
            shown == String(row[f])
        IN  /\ Includes(row.searchableText.s, ToLowerCase(shown))
            /\ SearchReturns(row, shown, transformed.rows)

\* C21: column virtualization is enabled exactly when the table has more
\* than 10 columns and pagination is not enabled.
C21_ColumnVirtualization ==
  tableOptions.enableColumnVirtualization
    <=> (columnCount > 10 /\ ~props.enablePagination)

\* C23: whenever the number of rows that remain after filtering is at or
\* below the threshold of 100 rows, the table renders the filtered rows
\* without row virtualization, whatever the size of the loaded dataset.
C23_NoWindowingForSmallSets ==
  filteredCount <= 100 => ~tableOptions.enableRowVirtualization

\* C22: clear-all wins over a pending search commit: when clear-all is
\* invoked while a debounced search commit is pending and nothing is typed
\* afterwards, the global search is the empty string once all timers have
\* fired; the pending commit does not reinstate the typed term.
C22_ClearWinsOverPendingSearch ==
  (mounted /\ sinceClear /\ timers = <<>>) => globalFilter = <<>>

\* the count the server sent for the row's column
CountSent(row, column) ==
  LET item == sortRaw[CHOOSE i \in 1..Len(sortRaw) : sortRaw[i]._id = row.id]
  IN  CASE column = "companies_imported" -> item.total_new_companies.n
        [] column = "contacts_imported" -> item.total_new_contacts.n
        [] column = "companies_researched" -> item.total_companies_market_researched.n
        [] column = "contacts_researched" -> item.total_contacts_market_researched.n
        [] column = "total_rows_skipped" -> item.total_skipped.n

\* C24: for the count columns, which declare a comparator, sorting
\* ascending orders the rows by the numeric value of the underlying count (a
\* row with count 9 precedes a row with count 10), not by the text shown,
\* and the comparator returns 0 exactly for rows with equal counts.
C24_NumericSort ==
  sortDone =>
    /\ Len(sortedRows) = Len(sortRaw)
    /\ \A i, j \in 1..Len(sortedRows) :
         i < j => CountSent(sortedRows[i], sortColumn)
                    <= CountSent(sortedRows[j], sortColumn)
    /\ \A i, j \in 1..Len(sortedRows) :
         sortingFn(sortColumn, sortedRows[i], sortedRows[j]) = 0
           <=> CountSent(sortedRows[i], sortColumn)
                 = CountSent(sortedRows[j], sortColumn)

C24_Witness ==
  /\ sortDone
  /\ Len(sortedRows) = 3
  /\ sortRaw[1].total_skipped = Num(10)
  /\ sortRaw[2].total_skipped = Num(9)
  /\ sortColumn = "total_rows_skipped"
  /\ DisplayOf(sortedRows[1], sortColumn) = Str(<<"9">>)
  /\ DisplayOf(sortedRows[2], sortColumn) = Str(<<"1", "0">>)
  /\ sortedRows[1].id = Num(2)

\* C25: the two global-search implementations agree: for every row set and
\* every search term, terms with leading or trailing whitespace and
\* whitespace-only terms included, the rows performGlobalSearch selects (the
\* count of the 'Showing X of Y records' line) are exactly the rows the
\* table's globalFilterFn lets through.
C25_SearchImplementationsAgree ==
  searched => filteredData = shownRows

\* the stored aspect is there and, where it is parsed, parses
ValidStored(a) ==
  /\ Truthy(store[storageKeys[a]])
  /\ a = "globalFilter" \/ JSONParse(store[storageKeys[a]]).ok

\* C26: a corrupt value in one persisted aspect does not prevent the other
\* aspects from being restored: when exactly one of the three stored aspects
\* of the tableId does not parse and the other two are valid, mounting
\* restores the two valid aspects into the in-memory state.
C26_CorruptAspectIsolated ==
  [][(MountStep /\ storageKeysDefined) =>
       \A a \in {"columnFilters", "sorting"} :
         (Corrupt(a) /\ \A b \in AspectSet \ {a} : ValidStored(b)) =>
           \A b \in AspectSet \ {a} :
             IF b = "globalFilter" THEN InMemory(b)' # <<>>
             ELSE InMemory(b)' = JSONParse(store[storageKeys[b]]).val
    ]_vars

\* C27: in OptimizedCompanyList the loading flag tracks the fetch exactly:
\* through the mount fetch and any number of Retry clicks, isLoading is true
\* if and only if a fetch is in flight, a fetch starts only when none is in
\* flight, and every fetch that settles, in success or failure, leaves
\* isLoading false.
C27_LoadingTracksFetch ==
  [][(component = OptimizedCompanyList /\ listMounted') =>
       /\ isLoading' <=> inFlight'
       /\ fetchCalls' = fetchCalls + 1 => ~inFlight
       /\ (inFlight /\ ~inFlight') => ~isLoading'
    ]_vars

C27_Witness ==
  /\ component = OptimizedCompanyList
  /\ listMounted
  /\ fetchCalls = 3
  /\ everSucceeded
  /\ ~inFlight
  /\ ~isLoading
  /\ Len(rows) = 2

PersistenceDisabled == ~enablePersistentFilters \/ tableId = NoTableId

\* C28: when persistence is disabled (enablePersistentFilters is false or
\* no tableId is given), no DataTable operation reads, writes or removes a
\* storage key: mount, every filter, search or sort change, and clear-all
\* leave the store as it is.
C28_DisabledLeavesStore ==
  [][PersistenceDisabled =>
       /\ store' = store
       /\ loads' = loads
       /\ written' = written
    ]_vars

C28_Witness ==
  /\ PersistenceDisabled
  /\ tableId \in TableIds
  /\ mounted
  /\ mounts = 2
  /\ clearRun = 1
  /\ columnFilters = <<>>
  /\ timers = <<>>
  /\ store[StorageKey(tableId, "sorting")] = JSONStringifyArray(<<"s">>)

\* the ids of the SDRs in the list, and those the rows refer to
ListedUserIds == {userDetails[i].sdr_user_id : i \in 1..Len(userDetails)}
RowUserIds ==
  {transformed.rows[i].user_id : i \in 1..Len(transformed.rows)} \ {Null}

\* C29: the SDR user list built by processCompanyData has no duplicates and
\* is complete: each sdr_user_id occurs at most once in userList, and an id
\* is in userList if and only if it is the non-null user_id of at least one
\* row of companyList.
C29_UserListUniqueComplete ==
  (transformDone /\ transformer = "processCompanyData") =>
    /\ \A i, j \in 1..Len(userDetails) :
         i # j => userDetails[i].sdr_user_id # userDetails[j].sdr_user_id
    /\ ListedUserIds = RowUserIds

C29_Witness ==
  /\ transformDone
  /\ transformer = "processCompanyData"
  /\ Len(transformed.rows) = 2
  /\ transformed.rows[1].user_id = Num(7)
  /\ transformed.rows[2].user_id = Num(7)
  /\ Len(userDetails) = 1

\* C30: the upload progress is reset on completion: uploadProgress is always
\* within 0..100, and once an upload has finished (uploading is false)
\* uploadProgress is 0 and stays 0 until the next upload starts; no progress
\* timer of the finished upload changes it afterwards.
C30_ProgressResetOnCompletion ==
  /\ uploadProgress \in 0..100
  /\ ~uploading => uploadProgress = 0
====
